---- MODULE Spec2Model ----
(***************************************************************************)
(* Detection Orchestrator (server/services/detectionOrchestrator.js) of    *)
(* the APEX front-end mock server: per-job state records in `store`, the   *)
(* setInterval loop that calls step() every 500ms, the suspended step()    *)
(* invocations awaiting a tier promise, and the public start()/status().   *)
(***************************************************************************)
EXTENDS Integers, Sequences, FiniteSets, Bags, TLC

\* ---------------------------------------------------------------- bounds
MaxKeys == 2        \* longest reportKeys list a start payload carries
MaxInFlight == 2    \* step() invocations that may be suspended at once
MaxTimers == 2      \* setInterval handles the process hands out
MaxCount == 1       \* largest field count a tier reports
MaxFiles == 1       \* uploaded files a job carries
MaxNameLen == 2     \* letters in an uploaded file's name
MaxClicks == 2      \* Continue handlers that may be suspended at once
MaxPolls == 2       \* status polls that may be awaiting their answer at once

\* ------------------------------------------------------------ JS values
Null == "null"
Undef == "undefined"
Falsy(x) == x \in {Null, Undef, ""}

JobIds == {"J-1"}
\* two engagements running detection side by side
TwoJobs == {"J-1", "J-2"}
MissingJobIds == {Undef, ""}
\* an id callers poll for that no start call ever carries
NeverStarted == "J-0"
KeyNames == <<"soi", "pands", "nav", "tb">>
AxisRaw == {"yes", "no", "pending", "maybe", Undef}
LegacyRaw == {"yes", "no", "pending"}
Counts == 0..MaxCount
Messages == {Null, "note"}
\* what a tier may throw: an Error object, or a bare string
Errors == {[kind |-> "Error", message |-> "tier down"],
           [kind |-> "Error", message |-> ""],
           [kind |-> "string", message |-> ""]}

\* reportKeys lists a caller sends: n distinct keys, or n keys of which the
\* last repeats the first
DistinctKeys(n) == [m \in 1..n |-> KeyNames[m]]
RepeatedKey(n) == [m \in 1..n |-> IF m = n THEN KeyNames[1] ELSE KeyNames[m]]
Payloads == {DistinctKeys(n) : n \in 0..MaxKeys} \cup {RepeatedKey(n) : n \in 2..MaxKeys}

\* A tier's answer as the tier hands it back, or nothing at all.
NullResult == [nil |-> TRUE]

\* the documented shape, the way both stubs fill it in
PlainResults(label) ==
  [nil : {FALSE}, fieldsMapped : {"yes", "no", "pending"},
   attributesMapped : {"yes", "no", "pending"},
   located : {Undef}, mapped : {Undef},
   locatedSource : {label}, mappedCount : {0}, totalFields : {0},
   message : {Null}]

\* the rule tier's verdicts: it locates or not, maps only what it located, or
\* has no verdict on either axis
RuleResults(label) ==
  {r \in PlainResults(label) :
     \/ r.fieldsMapped = "pending" /\ r.attributesMapped = "pending"
     \/ r.fieldsMapped = "yes" /\ r.attributesMapped \in {"yes", "no"}
     \/ r.fieldsMapped = "no" /\ r.attributesMapped = "no"}

\* anything the duck-typed contract lets through: new keys, old keys, nothing
AnyResults(label) ==
  {NullResult}
  \cup [nil : {FALSE}, fieldsMapped : AxisRaw, attributesMapped : AxisRaw,
        located : {Undef}, mapped : {Undef},
        locatedSource : {label, Null}, mappedCount : Counts,
        totalFields : Counts, message : Messages]
  \cup [nil : {FALSE}, fieldsMapped : {Undef}, attributesMapped : {Undef},
        located : LegacyRaw, mapped : LegacyRaw,
        locatedSource : {label, Null}, mappedCount : Counts,
        totalFields : Counts, message : Messages]

\* ------------------------------------------------- detectionTierA.js
\* Where the rule tier looks inside strings they are spelled letter by letter,
\* <<>> being the empty string and standing for a missing one as well.
Letters == {"s", "S", "x"}
toLowerCase(str) == [n \in 1..Len(str) |-> IF str[n] = "S" THEN "s" ELSE str[n]]
includes(name, q) ==
  \E k \in 0..(Len(name) - Len(q)) : SubSeq(name, k + 1, k + Len(q)) = q

SpelledUpTo(n) == UNION {[1..m -> Letters] : m \in 0..n}
RuleKeys == {<<"s">>, <<"S", "x">>}
HumanNames == {<<>>, <<"x">>}
Uploads ==
  [originalName : SpelledUpTo(MaxNameLen), serverName : {<<"x", "x">>}]
FileLists == UNION {[1..m -> Uploads] : m \in 0..MaxFiles}
\* db.system_data: the required files of the routines, and the field specs
Datasets ==
  [required_files : {<<>>} \cup {<<[key |-> k, human_name |-> h]>> :
                                   k \in RuleKeys, h \in HumanNames},
   report_field_specs : {{}} \cup {{[key |-> k, fields |-> n]} :
                                     k \in RuleKeys, n \in 1..MaxCount}]

findReportMeta(db, reportKey) ==
  LET hits == {n \in 1..Len(db.required_files) :
                 db.required_files[n].key = reportKey}
      last == CHOOSE n \in hits : \A m \in hits : m <= n
      spec == {e \in db.report_field_specs : e.key = reportKey}
  IN [humanName   |-> IF hits = {} THEN <<>>
                      ELSE db.required_files[last].human_name,
      totalFields |-> IF spec = {} THEN 0 ELSE (CHOOSE e \in spec : TRUE).fields]

looksLikeMatch(files, reportKey, humanName) ==
  LET q == toLowerCase(reportKey)
      h == toLowerCase(humanName)
  IN \E n \in 1..Len(files) :
       LET f    == files[n]
           name == toLowerCase(IF f.originalName # <<>> THEN f.originalName
                               ELSE f.serverName)
       IN includes(name, q) \/ (h # <<>> /\ includes(name, h))

\* the rules as written at the top of the file
locateAndMapByRules(ctx) ==
  LET meta       == findReportMeta(ctx.db, ctx.reportKey)
      locatedYes == looksLikeMatch(ctx.files, ctx.reportKey, meta.humanName)
      mappedYes  == locatedYes /\ meta.totalFields > 0
  IN [nil |-> FALSE, fieldsMapped |-> Undef, attributesMapped |-> Undef,
      located |-> IF locatedYes THEN "yes" ELSE "no",
      mapped  |-> IF mappedYes THEN "yes" ELSE "no",
      locatedSource |-> "db",
      mappedCount |-> IF mappedYes THEN meta.totalFields ELSE 0,
      totalFields |-> meta.totalFields,
      message |-> Null]

\* module.exports.locateAndMap as the file leaves it: the stub assigned last
locateAndMap(ctx) ==
  [nil |-> FALSE, fieldsMapped |-> Undef, attributesMapped |-> Undef,
   located |-> "no", mapped |-> "no", locatedSource |-> Null,
   mappedCount |-> 0, totalFields |-> 0, message |-> Null]

\* any value on either axis, labelled or not, with nothing counted and nothing
\* to say: the answers that differ in their verdicts alone
AxisResults(label) ==
  {NullResult}
  \cup [nil : {FALSE}, fieldsMapped : AxisRaw, attributesMapped : AxisRaw,
        located : {Undef}, mapped : {Undef},
        locatedSource : {label, Null}, mappedCount : {0},
        totalFields : {0}, message : {Null}]

VARIABLES
  store,      \* the Map jobId -> job record
  timers,     \* live setInterval handles: handle -> jobId of its closure
  nextTimer,  \* the next handle setInterval returns
  inflight,   \* bag of step() invocations suspended at an await
  ret,        \* what the last call of start() or status() returned
  env,        \* the plugged-in tiers: result shapes, and whether a call
              \* may outlast the 500ms interval
  state,          \* the Data Import page's state object
  sessionStorage, \* the browser tab's sessionStorage, key -> value
  page,           \* the open page: its location, buttons, modal, alert
  awaiting        \* bag of front-end async calls suspended at an await

server == <<store, timers, nextTimer, inflight, ret, env>>
browser == <<state, sessionStorage, page, awaiting>>
vars == <<store, timers, nextTimer, inflight, ret, env,
          state, sessionStorage, page, awaiting>>

TierA ==
  IF env.shapes = "plain" THEN RuleResults("db")
  ELSE IF env.shapes = "axes" THEN AxisResults("db") ELSE AnyResults("db")
TierB ==
  IF env.shapes = "plain" THEN PlainResults("ai")
  ELSE IF env.shapes = "axes" THEN AxisResults("ai") ELSE AnyResults("ai")

\* ------------------------------------------------------------- helpers
computeOutcome(reports) ==
  [fieldsAnyNo      |-> \E n \in 1..Len(reports) : reports[n].fieldsMapped = "no",
   attributesAnyNo  |-> \E n \in 1..Len(reports) : reports[n].attributesMapped = "no",
   fieldsAllYes     |-> Len(reports) > 0
                        /\ \A n \in 1..Len(reports) : reports[n].fieldsMapped = "yes",
   attributesAllYes |-> Len(reports) > 0
                        /\ \A n \in 1..Len(reports) : reports[n].attributesMapped = "yes"]

normalizeAxis(raw) ==
  IF raw = "yes" THEN "yes"
  ELSE IF raw = "no" THEN "no"
  ELSE IF Falsy(raw) THEN "pending" ELSE raw

normalizeTierResult(r) ==
  IF r.nil THEN NullResult
  ELSE LET fieldsMappedRaw     == IF r.fieldsMapped \in {Null, Undef}
                                  THEN r.located ELSE r.fieldsMapped
           attributesMappedRaw == IF r.attributesMapped \in {Null, Undef}
                                  THEN r.mapped ELSE r.attributesMapped
       IN [nil              |-> FALSE,
           fieldsMapped     |-> normalizeAxis(fieldsMappedRaw),
           attributesMapped |-> normalizeAxis(attributesMappedRaw),
           locatedSource    |-> IF Falsy(r.locatedSource) THEN Null ELSE r.locatedSource,
           mappedCount      |-> r.mappedCount,
           totalFields      |-> r.totalFields,
           message          |-> IF Falsy(r.message) THEN Null ELSE r.message]

seedTask(k) ==
  [reportKey |-> k, fieldsMapped |-> "pending", attributesMapped |-> "pending",
   locatedSource |-> Null, mappedCount |-> 0, totalFields |-> 0, message |-> Null]

seedJob(reportKeys) ==
  LET reports == [n \in 1..Len(reportKeys) |-> seedTask(reportKeys[n])]
  IN [overall  |-> "running",
      progress |-> [done |-> 0, total |-> Len(reports)],
      reports  |-> reports,
      outcome  |-> computeOutcome(reports),
      timer    |-> 0,
      cursor   |-> 0,
      message  |-> Null]

\* ensureJob without the store.has(jobId) early return
ensureJob_reseed(st, jobId, reportKeys) ==
  [k \in DOMAIN st \cup {jobId} |->
     IF k = jobId THEN seedJob(reportKeys) ELSE st[k]]

\* ensureJob taking on, for a job it already has, the keys a longer list adds
ensureJob_appends(st, jobId, reportKeys) ==
  IF jobId \in DOMAIN st
  THEN LET job   == st[jobId]
           added == [n \in 1..(Len(reportKeys) - Len(job.reports)) |->
                       seedTask(reportKeys[Len(job.reports) + n])]
       IN [st EXCEPT ![jobId].reports = job.reports \o added,
                     ![jobId].progress.total = Len(job.reports \o added)]
  ELSE [k \in DOMAIN st \cup {jobId} |->
          IF k = jobId THEN seedJob(reportKeys) ELSE st[k]]

\* store after ensureJob(jobId, reportKeys)
ensureJob(st, jobId, reportKeys) ==
  IF jobId \in DOMAIN st THEN st
  ELSE [k \in DOMAIN st \cup {jobId} |->
          IF k = jobId THEN seedJob(reportKeys) ELSE st[k]]


clearTimer(job) == [job EXCEPT !.timer = 0]

\* a clearTimer that stops every interval of the process
clearInterval_all(tm, job) ==
  IF job.timer # 0 THEN <<>> ELSE tm

\* the interval table after clearInterval(job._timer)
clearInterval(tm, job) ==
  IF job.timer # 0 THEN [h \in DOMAIN tm \ {job.timer} |-> tm[h]] ELSE tm

\* aNeedsB looking at the fields axis alone
aNeedsB_fieldsOnly(result) ==
  \/ result.nil
  \/ result.fieldsMapped \notin {"yes", "no"}

aNeedsB(result) ==
  \/ result.nil
  \/ result.fieldsMapped \notin {"yes", "no"}
  \/ result.attributesMapped \notin {"yes", "no"}

\* the merge taking Tier B's verdict whenever Tier B has one
mergeAxis_preferB(result, resB, axis) ==
  IF ~resB.nil /\ resB[axis] \in {"yes", "no"} THEN resB[axis]
  ELSE IF ~result.nil /\ ~Falsy(result[axis]) THEN result[axis] ELSE "pending"

\* "Prefer existing A values; fill only where pending"
mergeAxis(result, resB, axis) ==
  IF ~result.nil /\ ~Falsy(result[axis]) /\ result[axis] # "pending"
  THEN result[axis]
  ELSE IF resB.nil THEN "pending" ELSE resB[axis]

mergeOr(result, resB, field) ==
  IF ~result.nil /\ ~Falsy(result[field]) THEN result[field]
  ELSE IF ~resB.nil /\ ~Falsy(resB[field]) THEN resB[field]
  ELSE Null

mergeCount(result, resB, field) ==
  IF ~result.nil THEN result[field]
  ELSE IF ~resB.nil THEN resB[field] ELSE 0

mergeTiers(result, resB) ==
  [nil              |-> FALSE,
   fieldsMapped     |-> mergeAxis(result, resB, "fieldsMapped"),
   attributesMapped |-> mergeAxis(result, resB, "attributesMapped"),
   locatedSource    |-> mergeOr(result, resB, "locatedSource"),
   mappedCount      |-> mergeCount(result, resB, "mappedCount"),
   totalFields      |-> mergeCount(result, resB, "totalFields"),
   message          |-> mergeOr(result, resB, "message")]

terminalize(result, axis) ==
  IF result.nil THEN "no"
  ELSE IF result[axis] = "yes" THEN "yes"
  ELSE IF result[axis] = "no" THEN "no" ELSE "no"

\* "Apply to report" cut short after its first assignment
appliedTask_fieldsOnly(r, result) ==
  [r EXCEPT !.fieldsMapped = terminalize(result, "fieldsMapped")]

\* the report written by step() at "Apply to report"
appliedTask(r, result) ==
  LET fieldsMapped == terminalize(result, "fieldsMapped")
  IN [r EXCEPT
        !.fieldsMapped     = fieldsMapped,
        !.attributesMapped = terminalize(result, "attributesMapped"),
        !.locatedSource    = IF fieldsMapped = "yes" /\ ~result.nil
                                /\ ~Falsy(result.locatedSource)
                             THEN result.locatedSource ELSE Null,
        !.mappedCount      = IF result.nil THEN 0 ELSE result.mappedCount,
        !.totalFields      = IF result.nil THEN 0 ELSE result.totalFields,
        !.message          = IF result.nil \/ Falsy(result.message)
                             THEN Null ELSE result.message]

Min(a, b) == IF a < b THEN a ELSE b

\* the tail of step() without "Update outcome snapshot after each report update"
applyResult_staleOutcome(job, i, result) ==
  LET reports == [job.reports EXCEPT ![i + 1] = appliedTask(job.reports[i + 1], result)]
      cursor  == job.cursor + 1
      applied == [job EXCEPT
                    !.reports = reports,
                    !.cursor = cursor,
                    !.progress.done = Min(cursor, job.progress.total)]
  IN IF cursor >= Len(reports)
     THEN clearTimer([applied EXCEPT !.overall = "success"])
     ELSE applied

\* the tail of step() with progress.done = _cursor, Math.min left out
applyResult_rawDone(job, i, result) ==
  LET reports == [job.reports EXCEPT ![i + 1] = appliedTask(job.reports[i + 1], result)]
      cursor  == job.cursor + 1
      applied == [job EXCEPT
                    !.reports = reports,
                    !.cursor = cursor,
                    !.progress.done = cursor,
                    !.outcome = computeOutcome(reports)]
  IN IF cursor >= Len(reports)
     THEN clearTimer([applied EXCEPT !.overall = "success"])
     ELSE applied

\* the tail of step() without job._cursor += 1
applyResult_noAdvance(job, i, result) ==
  LET reports == [job.reports EXCEPT ![i + 1] = appliedTask(job.reports[i + 1], result)]
      applied == [job EXCEPT
                    !.reports = reports,
                    !.progress.done = Min(job.cursor, job.progress.total),
                    !.outcome = computeOutcome(reports)]
  IN IF job.cursor >= Len(reports)
     THEN clearTimer([applied EXCEPT !.overall = "success"])
     ELSE applied

\* the job after the tail of step(): apply, advance, recompute, maybe finish
applyResult(job, i, result) ==
  LET reports == [job.reports EXCEPT ![i + 1] = appliedTask(job.reports[i + 1], result)]
      cursor  == job.cursor + 1
      applied == [job EXCEPT
                    !.reports = reports,
                    !.cursor = cursor,
                    !.progress.done = Min(cursor, job.progress.total),
                    !.outcome = computeOutcome(reports)]
  IN IF cursor >= Len(reports)
     THEN clearTimer([applied EXCEPT !.overall = "success"])
     ELSE applied

\* String(err?.message || err)
errMessage(err) ==
  IF err.kind = "Error"
  THEN IF Falsy(err.message) THEN "Error" ELSE err.message
  ELSE err.message

\* a catch block that also counts the failed report as done
failJob_advances(job, err) ==
  clearTimer([job EXCEPT !.overall = "failed", !.message = errMessage(err),
                         !.cursor = job.cursor + 1,
                         !.progress.done = Min(job.cursor + 1, job.progress.total)])

\* a catch block that leaves the interval running
failJob_keepsTimer(job, err) ==
  [job EXCEPT !.overall = "failed", !.message = errMessage(err)]

\* the job after step()'s catch block
failJob(job, err) ==
  clearTimer([job EXCEPT !.overall = "failed", !.message = errMessage(err)])


\* ------------------------------------------------------ suspended steps
Suspended(phase, jobId, i, resA) ==
  [phase |-> phase, jobId |-> jobId, i |-> i, resA |-> resA]

\* store and interval table after a step writes `job` back over `old`
putJob(jobId, old, job) ==
  [store  |-> [store EXCEPT ![jobId] = job],
   timers |-> IF job.timer = 0 THEN clearInterval(timers, old) ELSE timers]

\* ---------------------------------------------------------------- step
\* The interval callback: step() from its entry to the first await.
Tick(h) ==
  /\ h \in DOMAIN timers
  /\ LET jobId == timers[h]
         job   == store[jobId]
     IN IF job.overall # "running"
        THEN UNCHANGED <<store, timers, inflight>>
        ELSE IF job.cursor >= Len(job.reports)
        THEN LET w == putJob(jobId, job, clearTimer([job EXCEPT !.overall = "success"]))
             IN /\ store' = w.store
                /\ timers' = w.timers
                /\ UNCHANGED inflight
        ELSE /\ BagCardinality(inflight) < MaxInFlight
             /\ env.slowTiers \/ \A r \in BagToSet(inflight) : r.jobId # jobId
             /\ inflight' = inflight (+) SetToBag({Suspended("A", jobId, job.cursor, NullResult)})
             /\ UNCHANGED <<store, timers>>
  /\ UNCHANGED <<nextTimer, ret, env, browser>>

\* TierA.locateAndMap resolves: step() runs on to the TierB await or to its end.
TierAResolve(r, raw) ==
  /\ BagIn(r, inflight)
  /\ r.phase = "A"
  /\ LET job  == store[r.jobId]
         resA == normalizeTierResult(raw)
     IN IF aNeedsB(resA)
        THEN /\ inflight' = (inflight (-) SetToBag({r}))
                            (+) SetToBag({Suspended("B", r.jobId, r.i, resA)})
             /\ UNCHANGED <<store, timers>>
        ELSE LET w == putJob(r.jobId, job, applyResult(job, r.i, resA))
             IN /\ store' = w.store
                /\ timers' = w.timers
                /\ inflight' = inflight (-) SetToBag({r})
  /\ UNCHANGED <<nextTimer, ret, env, browser>>

\* TierB.locateAndMap resolves: merge, terminalize, apply.
TierBResolve(r, raw) ==
  /\ BagIn(r, inflight)
  /\ r.phase = "B"
  /\ LET job    == store[r.jobId]
         result == mergeTiers(r.resA, normalizeTierResult(raw))
         w      == putJob(r.jobId, job, applyResult(job, r.i, result))
     IN /\ store' = w.store
        /\ timers' = w.timers
        /\ inflight' = inflight (-) SetToBag({r})
  /\ UNCHANGED <<nextTimer, ret, env, browser>>

\* Either tier's promise rejects: the catch block of step().
TierReject(r, err) ==
  /\ BagIn(r, inflight)
  /\ LET job == store[r.jobId]
         w   == putJob(r.jobId, job, failJob(job, err))
     IN /\ store' = w.store
        /\ timers' = w.timers
        /\ inflight' = inflight (-) SetToBag({r})
  /\ UNCHANGED <<nextTimer, ret, env, browser>>

\* ------------------------------------------------------- start / status
\* store and interval table after schedule(jobId, ctx), h the new handle
schedule(st, tm, h, jobId) ==
  LET cleared == clearInterval(tm, st[jobId])
  IN [store  |-> [st EXCEPT ![jobId].timer = h],
      timers |-> [k \in DOMAIN cleared \cup {h} |->
                    IF k = h THEN jobId ELSE cleared[k]]]

Started(jobId, empty, already) ==
  [op |-> "start", jobId |-> jobId, threw |-> FALSE,
   started |-> TRUE, empty |-> empty, already |-> already]

\* what the caller of start() sees when it throws
Threw ==
  [op |-> "start", jobId |-> "", threw |-> TRUE,
   started |-> FALSE, empty |-> FALSE, already |-> FALSE]

\* the rest of start() once the jobId is known to be there
startJob(st, tm, h, jobId, reportKeys, emptyCheck, tickingCheck) ==
  LET seeded == ensureJob(st, jobId, reportKeys)
      job    == seeded[jobId]
  IN IF emptyCheck /\ job.progress.total = 0
     THEN [store  |-> [seeded EXCEPT ![jobId].overall = "success",
                                     ![jobId].outcome = computeOutcome(job.reports)],
           timers |-> tm, ret |-> Started(jobId, TRUE, FALSE), scheduled |-> FALSE]
     ELSE IF job.overall # "running"
     THEN [store |-> seeded, timers |-> tm, ret |-> Started(jobId, FALSE, TRUE),
           scheduled |-> FALSE]
     ELSE IF tickingCheck /\ job.timer # 0
     THEN [store |-> seeded, timers |-> tm, ret |-> Started(jobId, FALSE, TRUE),
           scheduled |-> FALSE]
     ELSE LET sch == schedule(seeded, tm, h, jobId)
          IN [store |-> sch.store, timers |-> sch.timers,
              ret |-> Started(jobId, FALSE, FALSE), scheduled |-> TRUE]

\* start() without the "already ticking" early return
start_noTickingCheck(st, tm, h, jobId, reportKeys) ==
  IF Falsy(jobId)
  THEN [store |-> st, timers |-> tm, ret |-> Threw, scheduled |-> FALSE]
  ELSE startJob(st, tm, h, jobId, reportKeys, TRUE, FALSE)

\* start() without the total === 0 branch
start_emptyRuns(st, tm, h, jobId, reportKeys) ==
  IF Falsy(jobId)
  THEN [store |-> st, timers |-> tm, ret |-> Threw, scheduled |-> FALSE]
  ELSE startJob(st, tm, h, jobId, reportKeys, FALSE, TRUE)

\* start() without the jobId guard
start_noJobIdCheck(st, tm, h, jobId, reportKeys) ==
  startJob(st, tm, h, jobId, reportKeys, TRUE, TRUE)

\* start(jobId, payload): the new store, interval table and the return value
start(st, tm, h, jobId, reportKeys) ==
  IF Falsy(jobId)
  THEN [store |-> st, timers |-> tm, ret |-> Threw, scheduled |-> FALSE]
  ELSE startJob(st, tm, h, jobId, reportKeys, TRUE, TRUE)

Start(jobId, reportKeys) ==
  LET out == start(store, timers, nextTimer, jobId, reportKeys)
  IN /\ out.scheduled => nextTimer <= MaxTimers
     /\ store' = out.store
     /\ timers' = out.timers
     /\ nextTimer' = IF out.scheduled THEN nextTimer + 1 ELSE nextTimer
     /\ ret' = out.ret
     /\ UNCHANGED <<inflight, env, browser>>

\* start() called with no jobId, or an empty one
StartNoJobId == \E jobId \in MissingJobIds : Start(jobId, <<>>)

statusReport(r) ==
  [reportKey |-> r.reportKey,
   fieldsMapped |-> r.fieldsMapped, attributesMapped |-> r.attributesMapped,
   located |-> r.fieldsMapped, mapped |-> r.attributesMapped,
   locatedSource |-> r.locatedSource, mappedCount |-> r.mappedCount,
   totalFields |-> r.totalFields,
   message |-> IF Falsy(r.message) THEN Null ELSE r.message]

\* status() answering an unknown job with the snapshot of an empty one
status_blankSnapshot(st, jobId) ==
  LET job == IF jobId \in DOMAIN st THEN st[jobId] ELSE seedJob(<<>>)
  IN [op |-> "status", jobId |-> jobId, found |-> TRUE,
      body |-> [jobId    |-> jobId,
                overall  |-> job.overall,
                progress |-> job.progress,
                outcome  |-> job.outcome,
                reports  |-> [n \in 1..Len(job.reports) |->
                                statusReport(job.reports[n])]]]

\* status(jobId): null for an unknown job, else the snapshot
status(st, jobId) ==
  IF jobId \notin DOMAIN st
  THEN [op |-> "status", jobId |-> jobId, found |-> FALSE, body |-> <<>>]
  ELSE LET job == st[jobId]
       IN [op |-> "status", jobId |-> jobId, found |-> TRUE,
           body |-> [jobId    |-> jobId,
                     overall  |-> job.overall,
                     progress |-> job.progress,
                     outcome  |-> job.outcome,
                     reports  |-> [n \in 1..Len(job.reports) |->
                                     statusReport(job.reports[n])]]]

Status(jobId) ==
  /\ ret' = status(store, jobId)
  /\ UNCHANGED <<store, timers, nextTimer, inflight, env, browser>>

\* the HTTP status of GET /api/detection/:jobId/status and of
\* POST /api/detection/start
statusRoute(out) == IF out.found THEN 200 ELSE 404
startRoute(jobId, out) ==
  IF Falsy(jobId) THEN 400 ELSE IF out.threw THEN 500 ELSE 200

\* ---------------------------------------------------------------- spec
\* no page of the front end is open
NoBrowser ==
  /\ state = Null
  /\ sessionStorage = <<>>
  /\ page = [location |-> "none"]
  /\ awaiting = EmptyBag

\* The process after the module is loaded: no job, no timer, nothing suspended.
Loaded ==
  /\ store = <<>>
  /\ timers = <<>>
  /\ nextTimer = 1
  /\ inflight = EmptyBag
  /\ ret = [op |-> "none"]
  /\ NoBrowser

\* Tier calls that may outlast the interval, answering in the documented shape.
Init == Loaded /\ env = [slowTiers |-> TRUE, shapes |-> "plain"]

\* the job machinery: callers starting jobs, intervals firing, tier calls ending
Next ==
  \/ \E jobId \in JobIds, reportKeys \in Payloads : Start(jobId, reportKeys)
  \/ \E h \in 1..MaxTimers : Tick(h)
  \/ \E r \in BagToSet(inflight), raw \in TierA : TierAResolve(r, raw)
  \/ \E r \in BagToSet(inflight), raw \in TierB : TierBResolve(r, raw)
  \/ \E r \in BagToSet(inflight), err \in Errors : TierReject(r, err)

Spec == Init /\ [][Next]_vars

\* the same with the rest of the public API: status polls, and starts that
\* come without a job id
NextApi ==
  \/ Next
  \/ StartNoJobId
  \/ \E jobId \in JobIds : Status(jobId)

SpecApi == Init /\ [][NextApi]_vars

\* the job machinery with callers that now and then send a start without a
\* job id
NextStarts ==
  \/ Next
  \/ StartNoJobId

SpecStarts == Init /\ [][NextStarts]_vars

\* One step at a time over tiers that answer in any shape: the process right
\* after start('J-1', {reportKeys: ['soi']}), its tier calls finishing within
\* the interval.
InitTiers ==
  LET out == start(<<>>, <<>>, 1, "J-1", <<"soi">>)
  IN /\ store = out.store
     /\ timers = out.timers
     /\ nextTimer = 2
     /\ inflight = EmptyBag
     /\ ret = out.ret
     /\ env = [slowTiers |-> FALSE, shapes |-> "any"]
     /\ NoBrowser

NextTiers ==
  \/ \E h \in 1..MaxTimers : Tick(h)
  \/ \E r \in BagToSet(inflight), raw \in TierA : TierAResolve(r, raw)
  \/ \E r \in BagToSet(inflight), raw \in TierB : TierBResolve(r, raw)
  \/ \E r \in BagToSet(inflight), err \in Errors : TierReject(r, err)

SpecTiers == InitTiers /\ [][NextTiers]_vars

\* The job machinery with the interval timer firing for as long as it is set
\* and every tier call coming back, with an answer or an exception.
TickFires == \E h \in 1..MaxTimers : Tick(h)
TierReturns ==
  \E r \in BagToSet(inflight) :
    \/ \E err \in Errors : TierReject(r, err)
    \/ \E raw \in TierA : TierAResolve(r, raw)
    \/ \E raw \in TierB : TierBResolve(r, raw)

SpecLive == Init /\ [][Next]_vars /\ WF_vars(TickFires) /\ WF_vars(TierReturns)

\* Two jobs side by side in the one store, each started with no report or
\* with one.
InitJobs == Loaded /\ env = [slowTiers |-> TRUE, shapes |-> "plain"]

NextJobs ==
  \/ \E jobId \in TwoJobs, reportKeys \in {DistinctKeys(0), DistinctKeys(1)} :
       Start(jobId, reportKeys)
  \/ \E h \in 1..MaxTimers : Tick(h)
  \/ \E r \in BagToSet(inflight), raw \in TierA : TierAResolve(r, raw)
  \/ \E r \in BagToSet(inflight), raw \in TierB : TierBResolve(r, raw)
  \/ \E r \in BagToSet(inflight), err \in Errors : TierReject(r, err)

SpecJobs == InitJobs /\ [][NextJobs]_vars

\* The orchestrator over the rule tier it requires: one job of one report,
\* started with some uploaded files and some reference dataset.
tierContext(r) ==
  [jobId     |-> r.jobId,
   reportKey |-> store[r.jobId].reports[r.i + 1].reportKey,
   files     |-> env.files,
   db        |-> env.db]

RuleTierAnswers ==
  \E r \in BagToSet(inflight) : TierAResolve(r, locateAndMap(tierContext(r)))

InitRule ==
  \E reportKey \in RuleKeys, files \in FileLists, db \in Datasets :
    LET out == start(<<>>, <<>>, 1, "J-1", <<reportKey>>)
    IN /\ store = out.store
       /\ timers = out.timers
       /\ nextTimer = 2
       /\ inflight = EmptyBag
       /\ ret = out.ret
       /\ env = [slowTiers |-> FALSE, shapes |-> "plain",
                 files |-> files, db |-> db]
       /\ NoBrowser

NextRule ==
  \/ \E h \in 1..MaxTimers : Tick(h)
  \/ RuleTierAnswers

SpecRule == InitRule /\ [][NextRule]_vars

\* Two reports worked through one step at a time, the tiers free in their
\* verdicts: the process right after
\* start('J-1', {reportKeys: ['soi', 'pands']}).
InitMerge ==
  LET out == start(<<>>, <<>>, 1, "J-1", <<"soi", "pands">>)
  IN /\ store = out.store
     /\ timers = out.timers
     /\ nextTimer = 2
     /\ inflight = EmptyBag
     /\ ret = out.ret
     /\ env = [slowTiers |-> FALSE, shapes |-> "axes"]
     /\ NoBrowser

SpecMerge == InitMerge /\ [][NextTiers]_vars

\* Callers polling and starting around a job at work: the process right after
\* start('J-1', {reportKeys: ['soi', 'pands']}), with polls for that job and
\* for an id nobody started, and starts with and without a job id.
InitPoll ==
  LET out == start(<<>>, <<>>, 1, "J-1", <<"soi", "pands">>)
  IN /\ store = out.store
     /\ timers = out.timers
     /\ nextTimer = 2
     /\ inflight = EmptyBag
     /\ ret = out.ret
     /\ env = [slowTiers |-> TRUE, shapes |-> "plain"]
     /\ NoBrowser

NextPoll ==
  \/ \E jobId \in JobIds \cup MissingJobIds, reportKeys \in Payloads :
       Start(jobId, reportKeys)
  \/ \E jobId \in JobIds \cup {NeverStarted} : Status(jobId)
  \/ \E h \in 1..MaxTimers : Tick(h)
  \/ \E r \in BagToSet(inflight), raw \in TierA : TierAResolve(r, raw)
  \/ \E r \in BagToSet(inflight), raw \in TierB : TierBResolve(r, raw)
  \/ \E r \in BagToSet(inflight), err \in Errors : TierReject(r, err)

SpecPoll == InitPoll /\ [][NextPoll]_vars

\* ------------------------------------------------------------ readings
Jobs == DOMAIN store
StepsOf(jobId) == {r \in BagToSet(inflight) : r.jobId = jobId}
InFlightOf(jobId) ==
  LET S == StepsOf(jobId)
      RECURSIVE Sum(_)
      Sum(T) == IF T = {} THEN 0
                ELSE LET r == CHOOSE x \in T : TRUE
                     IN CopiesIn(r, inflight) + Sum(T \ {r})
  IN Sum(S)
LoopsOf(jobId) == {h \in DOMAIN timers : timers[h] = jobId}
KeysOf(job) == [n \in 1..Len(job.reports) |-> job.reports[n].reportKey]
Terminal(job) == job.overall \in {"success", "failed"}
Settled(r) == r.fieldsMapped \in {"yes", "no"} /\ r.attributesMapped \in {"yes", "no"}

\* C1: for every job at most one step is in flight at any time, even when a
\* tier call takes longer than the 500ms tick interval.
C1_OneStepInFlight == \A jobId \in Jobs : InFlightOf(jobId) <= 1

\* C2: whenever a job's overall is success, every task of the job has
\* fieldsMapped and attributesMapped in {yes, no}; none is still pending.
C2_SuccessLeavesNoPending ==
  \A jobId \in Jobs :
    store[jobId].overall = "success"
      => \A n \in 1..Len(store[jobId].reports) : Settled(store[jobId].reports[n])

\* C3: once a job's overall is success or failed it never changes again,
\* whatever start, tick or late tier completion follows.
C3_TerminalIsFinal ==
  [][\A jobId \in Jobs :
       Terminal(store[jobId]) => store'[jobId].overall = store[jobId].overall]_vars

\* C4: under any sequence of start calls for one jobId, with any payloads,
\* the job never has more than one live scheduling loop, and only the first
\* start seeds its tasks: a later start leaves tasks, cursor and progress be.
C4_OneLoopOneSeed ==
  [][\A jobId \in JobIds :
       /\ jobId \in DOMAIN store' => Cardinality({h \in DOMAIN timers' : timers'[h] = jobId}) <= 1
       /\ \/ jobId \notin Jobs
          \/ /\ store'[jobId].reports = store[jobId].reports
             /\ store'[jobId].cursor = store[jobId].cursor
             /\ store'[jobId].progress = store[jobId].progress
          \/ ~\E reportKeys \in Payloads : Start(jobId, reportKeys)]_vars

\* a start answered "already" while the job's loop is live and part-way through
C4_Witness ==
  /\ ret.op = "start" /\ ret.already
  /\ \E jobId \in Jobs :
       /\ ret.jobId = jobId
       /\ Cardinality(LoopsOf(jobId)) = 1
       /\ store[jobId].cursor >= 1
       /\ store[jobId].cursor < Len(store[jobId].reports)

\* C5 (as claimed): a second start with the same job id and payload, a
\* payload with zero report keys included, returns already: true and leaves
\* the cursor and every task unchanged.
C5_SecondStartSaysAlready ==
  [][\A jobId \in Jobs :
       Start(jobId, KeysOf(store[jobId]))
         => /\ ret'.already
            /\ store'[jobId].cursor = store[jobId].cursor
            /\ store'[jobId].reports = store[jobId].reports]_vars

\* C5 (amended): a second start with the same job id and payload leaves the
\* cursor and every task unchanged; it returns already: true when the payload
\* has at least one report key, and {started, empty: true} again when it has
\* none.
C5_SecondStartIsIdempotent ==
  [][\A jobId \in Jobs :
       Start(jobId, KeysOf(store[jobId]))
         => /\ ret'.started /\ ~ret'.threw
            /\ ret'.already <=> Len(store[jobId].reports) > 0
            /\ ret'.empty <=> Len(store[jobId].reports) = 0
            /\ store'[jobId].cursor = store[jobId].cursor
            /\ store'[jobId].reports = store[jobId].reports]_vars

\* a start answered "already" for a job whose first report is already settled
C5_Witness ==
  /\ ret.op = "start" /\ ret.already /\ ~ret.empty
  /\ \E jobId \in Jobs :
       /\ ret.jobId = jobId
       /\ store[jobId].cursor >= 1
       /\ Settled(store[jobId].reports[1])
       /\ store[jobId].overall = "running"

C7_FailedSnapshotHasMessage ==
  (ret.op = "status" /\ ret.found /\ ret.body.overall = "failed")
    => /\ "message" \in DOMAIN ret.body
       /\ ~Falsy(ret.body.message)

\* C8: the reportKeys of a job's tasks are pairwise distinct, duplicates in
\* the start payload having collapsed to one task, and total is the number of
\* distinct keys.
C8_KeysAreDistinct ==
  \A jobId \in Jobs :
    LET reports == store[jobId].reports
    IN /\ \A m, n \in 1..Len(reports) :
            m # n => reports[m].reportKey # reports[n].reportKey
       /\ store[jobId].progress.total
            = Cardinality({reports[n].reportKey : n \in 1..Len(reports)})

\* what a tier's raw answer says on an axis, under its new key or its old one
Says(raw, axis) ==
  LET old == IF axis = "fieldsMapped" THEN "located" ELSE "mapped"
  IN IF raw.nil THEN Undef
     ELSE IF raw[axis] \in {Null, Undef} THEN raw[old] ELSE raw[axis]
Axes == {"fieldsMapped", "attributesMapped"}

\* C9: for each axis on its own, if Tier 1 returns yes on the axis then the
\* value the step writes to the task for that axis is yes, whatever Tier 2
\* returns on it and whatever either tier returns on the other axis.
C9_TierOneYesIsKept ==
  [][\A r \in BagToSet(inflight), axis \in Axes :
       \* Tier 1 answers yes: the step writes yes, or goes on to ask Tier 2
       \* with that yes in hand
       /\ r.phase = "A"
            => \A raw \in {x \in TierA : Says(x, axis) = "yes"} :
                 TierAResolve(r, raw)
                   => IF store' # store
                      THEN store'[r.jobId].reports[r.i + 1][axis] = "yes"
                      ELSE \E q \in BagToSet(inflight') :
                             /\ q.phase = "B" /\ q.jobId = r.jobId /\ q.i = r.i
                             /\ q.resA[axis] = "yes"
       \* a step that asked Tier 2 with Tier 1's yes in hand finishes and writes
       /\ ( /\ r.phase = "B" /\ ~r.resA.nil /\ r.resA[axis] = "yes"
            /\ inflight' = inflight (-) SetToBag({r})
            /\ store'[r.jobId].cursor = store[r.jobId].cursor + 1 )
            => store'[r.jobId].reports[r.i + 1][axis] = "yes"]_vars

\* Tier 1 said yes on fields and left attributes open, so Tier 2 is being asked
C9_Witness ==
  \E r \in BagToSet(inflight) :
    /\ r.phase = "B" /\ ~r.resA.nil
    /\ r.resA.fieldsMapped = "yes"
    /\ r.resA.attributesMapped \notin {"yes", "no"}

\* C10: in every reachable job state the four outcome flags equal their
\* definition over the current tasks: an AllYes flag iff there is at least one
\* task and every task has yes on the axis, an AnyNo flag iff some task has no.
C10_OutcomeMatchesTasks ==
  \A jobId \in Jobs :
    LET job   == store[jobId]
        tasks == {job.reports[n] : n \in 1..Len(job.reports)}
    IN /\ job.outcome.fieldsAllYes
            <=> (tasks # {} /\ \A t \in tasks : t.fieldsMapped = "yes")
       /\ job.outcome.attributesAllYes
            <=> (tasks # {} /\ \A t \in tasks : t.attributesMapped = "yes")
       /\ job.outcome.fieldsAnyNo <=> \E t \in tasks : t.fieldsMapped = "no"
       /\ job.outcome.attributesAnyNo <=> \E t \in tasks : t.attributesMapped = "no"

\* both reports processed: yes on fields throughout, a no among the attributes
C10_Witness ==
  \E jobId \in Jobs :
    /\ store[jobId].cursor = 2
    /\ Len(store[jobId].reports) = 2
    /\ store[jobId].outcome.fieldsAllYes
    /\ store[jobId].outcome.attributesAnyNo
    /\ ~store[jobId].outcome.attributesAllYes

\* C11: for any job the progress.done seen by successive status calls never
\* goes down, and progress.done never exceeds progress.total, under every
\* interleaving of ticks, tier-call completions and start calls.
C11_ProgressNeverGoesBack ==
  [][\A jobId \in DOMAIN store' :
       LET now == store'[jobId].progress
       IN /\ now.done <= now.total
          /\ jobId \in Jobs => now.done >= store[jobId].progress.done
          \* a poll reports the progress as it stands, so no less than the
          \* poll before it
          /\ \/ ret' = ret
             \/ ret'.op # "status" \/ ret'.jobId # jobId
             \/ /\ ret'.found
                /\ ret'.body.progress = store[jobId].progress
                /\ ret'.body.progress.done <= ret'.body.progress.total
                /\ (ret.op = "status" /\ ret.found /\ ret.jobId = jobId)
                     => ret'.body.progress.done >= ret.body.progress.done]_vars

\* a poll that saw one report done, and the job has moved on since
C11_Witness ==
  /\ ret.op = "status" /\ ret.found
  /\ ret.body.progress.done = 1
  /\ store[ret.jobId].progress.done = 2

\* C12: in every reachable state of a job 0 <= cursor <= total and
\* progress.done = cursor; the cursor never decreases and each completed step
\* raises it by exactly 1.
C12_CursorTracksProgress ==
  [][\A jobId \in DOMAIN store' :
       LET job == store'[jobId]
       IN /\ 0 <= job.cursor /\ job.cursor <= job.progress.total
          /\ job.progress.done = job.cursor
          /\ jobId \in Jobs
               => /\ job.cursor >= store[jobId].cursor
                  /\ job.cursor <= store[jobId].cursor + 1
                  /\ \A r \in StepsOf(jobId) :
                       (r.phase = "B" /\ \E raw \in TierB : TierBResolve(r, raw))
                         => job.cursor = store[jobId].cursor + 1]_vars

\* C13: starting a job with zero report keys returns {started: true,
\* empty: true} and leaves the job with overall = success, progress
\* {done: 0, total: 0}, all four outcome flags false, and no scheduling loop
\* is ever created for it.
C13_EmptyJobIsDoneAtOnce ==
  [][\A jobId \in DOMAIN store' :
       LET job == store'[jobId]
       IN /\ (jobId \notin Jobs /\ Start(jobId, <<>>))
               => /\ ret' = Started(jobId, TRUE, FALSE)
                  /\ timers' = timers /\ nextTimer' = nextTimer
                  /\ job.progress.total = 0
          /\ job.progress.total = 0
               => /\ job.overall = "success"
                  /\ job.progress = [done |-> 0, total |-> 0]
                  /\ job.outcome = [fieldsAnyNo |-> FALSE, attributesAnyNo |-> FALSE,
                                    fieldsAllYes |-> FALSE, attributesAllYes |-> FALSE]
                  /\ job.timer = 0
                  /\ \A h \in DOMAIN timers' : timers'[h] # jobId]_vars

\* an empty job, just started
C13_Witness ==
  /\ ret.op = "start" /\ ret.empty /\ ~ret.already
  /\ \E jobId \in Jobs :
       /\ ret.jobId = jobId
       /\ store[jobId].reports = <<>>
       /\ store[jobId].overall = "success"

\* a task of a snapshot that no step has written, and one a step has written
AsSeeded(t) == t = statusReport(seedTask(t.reportKey))
Written(t) ==
  /\ t.fieldsMapped \in {"yes", "no"} /\ t.attributesMapped \in {"yes", "no"}
  /\ t.located = t.fieldsMapped /\ t.mapped = t.attributesMapped

C15_UnknownJobIsNotFound ==
  [][\A jobId \in JobIds \cup {NeverStarted} :
       (jobId \notin Jobs /\ Status(jobId))
         => /\ ret'.op = "status" /\ ~ret'.found
            /\ ret'.body = <<>>
            /\ statusRoute(ret') = 404
            /\ store' = store
            /\ timers' = timers /\ nextTimer' = nextTimer
            /\ inflight' = inflight]_vars

\* a poll for an id nobody started, while another job is part-way through
C15_Witness ==
  /\ ret.op = "status" /\ ~ret.found
  /\ ret.jobId = NeverStarted
  /\ NeverStarted \notin Jobs
  /\ \E jobId \in Jobs :
       /\ store[jobId].overall = "running"
       /\ store[jobId].cursor = 1
       /\ StepsOf(jobId) # {}

\* C16: a start call without a job identifier is rejected as a caller error
\* and leaves the job store unchanged: no job is created, and no existing
\* job's state or scheduling loop is touched.
C16_StartWithoutJobIdIsRejected ==
  [][\A jobId \in MissingJobIds, reportKeys \in Payloads :
       Start(jobId, reportKeys)
         => /\ ret' = Threw
            /\ startRoute(jobId, ret') = 400
            /\ store' = store
            /\ timers' = timers /\ nextTimer' = nextTimer
            /\ inflight' = inflight]_vars

\* a start without a job id, thrown out while a job is ticking
C16_Witness ==
  /\ ret = Threw
  /\ \E jobId \in Jobs :
       /\ store[jobId].overall = "running"
       /\ LoopsOf(jobId) # {}
       /\ store[jobId].cursor = 1

\* a job that is over, with nothing ticking for it
Stopped(jobId) ==
  /\ jobId \in Jobs
  /\ Terminal(store[jobId])
  /\ store[jobId].timer = 0
  /\ LoopsOf(jobId) = {}

\* C17: with ticks that keep firing and tier calls that all return or throw,
\* every job started with at least one report key eventually reaches success
\* or failed, after which its scheduling loop is stopped; if no tier call
\* throws it reaches success with progress.done = progress.total.
C17_StartedJobsFinish ==
  \A jobId \in JobIds :
    /\ (jobId \in Jobs /\ store[jobId].progress.total > 0)
         ~> [](Stopped(jobId))
    \* job.message is written by the catch block alone: still null, no tier
    \* call has thrown
    /\ (jobId \in Jobs /\ store[jobId].progress.total > 0)
         ~> /\ Stopped(jobId)
            /\ store[jobId].message = Null
                 => /\ store[jobId].overall = "success"
                    /\ store[jobId].progress.done = store[jobId].progress.total

\* two reports worked through without a throw, and the loop is gone
C17_Witness ==
  \E jobId \in Jobs :
    /\ Stopped(jobId)
    /\ store[jobId].message = Null
    /\ store[jobId].overall = "success"
    /\ store[jobId].progress = [done |-> 2, total |-> 2]
    /\ \A n \in 1..2 : Settled(store[jobId].reports[n])
    /\ inflight = EmptyBag

\* the step from this state to the next is an operation of job a: a start
\* for it, a tick of its interval, or one of its tier calls ending
ActsOn(a) ==
  \/ \E reportKeys \in {DistinctKeys(0), DistinctKeys(1)} : Start(a, reportKeys)
  \/ \E h \in DOMAIN timers : timers[h] = a /\ Tick(h)
  \/ \E r \in StepsOf(a) :
       \/ \E err \in Errors : TierReject(r, err)
       \/ \E raw \in TierA : TierAResolve(r, raw)
       \/ \E raw \in TierB : TierBResolve(r, raw)

\* job b is after the step what it was before: its record (overall, cursor,
\* progress, outcome, tasks, timer), its interval and its suspended steps
Untouched(b) ==
  /\ b \in DOMAIN store' <=> b \in Jobs
  /\ b \in Jobs => store'[b] = store[b]
  /\ {h \in DOMAIN timers' : timers'[h] = b} = LoopsOf(b)
  /\ \A r \in BagToSet(inflight) \cup BagToSet(inflight') :
       r.jobId = b => CopiesIn(r, inflight') = CopiesIn(r, inflight)

\* C18: jobs are independent: a start, tick, tier result or tier failure of
\* job A never changes job B's overall, cursor, progress, outcome, tasks or
\* scheduling loop, for any two distinct job ids.
C18_JobsAreIndependent ==
  [][\A a, b \in TwoJobs :
       a # b => (Untouched(b) \/ ~ActsOn(a))]_vars

\* one job has failed on a tier exception while the other is still at work
C18_Witness ==
  \E a, b \in Jobs :
    /\ a # b
    /\ store[a].overall = "failed" /\ LoopsOf(a) = {}
    /\ store[b].overall = "running" /\ LoopsOf(b) # {}
    /\ StepsOf(b) # {}

\* some uploaded file's name contains the report key or the report's
\* human-readable name, letter case aside
NamedInUploads(ctx) ==
  LET human == findReportMeta(ctx.db, ctx.reportKey).humanName
  IN \E n \in 1..Len(ctx.files) :
       LET f    == ctx.files[n]
           name == toLowerCase(IF f.originalName # <<>> THEN f.originalName
                               ELSE f.serverName)
       IN \/ includes(name, toLowerCase(ctx.reportKey))
          \/ human # <<>> /\ includes(name, toLowerCase(human))

\* C19: the Tier 1 (rule) resolver the orchestrator actually calls returns
\* fieldsMapped = yes whenever at least one uploaded file's name contains the
\* report key or the report's human-readable name, compared
\* case-insensitively.
C19_RuleTierFindsNamedFiles ==
  [][\A r \in BagToSet(inflight) :
       ( /\ r.phase = "A"
         /\ TierAResolve(r, locateAndMap(tierContext(r)))
         /\ NamedInUploads(tierContext(r)) )
         => Says(locateAndMap(tierContext(r)), "fieldsMapped") = "yes"]_vars

\* C20: after a job is first seeded its sequence of tasks is fixed: no later
\* start call, even one with a different reportKeys list, and no step adds,
\* removes, reorders or renames a task, so progress.total and the order of
\* the reportKeys stay those of the first start for the job's whole life.
C20_TasksAreFixedAtSeeding ==
  [][\A jobId \in DOMAIN store' :
       IF jobId \in Jobs
       THEN /\ KeysOf(store'[jobId]) = KeysOf(store[jobId])
            /\ store'[jobId].progress.total = store[jobId].progress.total
            /\ store'[jobId].progress.total = Len(store'[jobId].reports)
       ELSE \A reportKeys \in Payloads :
              Start(jobId, reportKeys)
                => /\ KeysOf(store'[jobId]) = reportKeys
                   /\ store'[jobId].progress.total = Len(reportKeys)]_vars

\* a job seeded with soi and pands, both worked through, and a start that
\* came after that
C20_Witness ==
  /\ ret.op = "start" /\ ret.already
  /\ \E jobId \in Jobs :
       /\ ret.jobId = jobId
       /\ KeysOf(store[jobId]) = <<"soi", "pands">>
       /\ store[jobId].overall = "success"
       /\ \A n \in 1..2 : Settled(store[jobId].reports[n])

\* Tier 1's answer leaves an axis open: it is not yes/no on both
Inconclusive(raw) ==
  \E axis \in Axes : Says(raw, axis) \notin {"yes", "no"}

Kept(res, axis) == IF res.nil THEN Undef ELSE res[axis]

\* Tier 1's verdict if it has one, else Tier 2's if it has one, else no
FirstVerdict(one, two) ==
  IF one \in {"yes", "no"} THEN one
  ELSE IF two \in {"yes", "no"} THEN two ELSE "no"

\* C24: for each axis independently the value a completed step writes to the
\* task is Tier 1's value if that is yes or no; otherwise (Tier 1 returned
\* pending, nothing, or any other value) Tier 2's value if that is yes or no;
\* otherwise no. One axis does not depend on either tier's value for the
\* other.
C24_AxisTakesFirstVerdict ==
  [][\A r \in BagToSet(inflight), axis \in Axes :
       LET written == store'[r.jobId].reports[r.i + 1][axis]
       IN /\ r.phase = "A"
               => \A raw \in TierA :
                    (TierAResolve(r, raw) /\ store' # store)
                      => written = FirstVerdict(Says(raw, axis), Undef)
          /\ r.phase = "B"
               => \A raw \in TierB :
                    TierBResolve(r, raw)
                      => written = FirstVerdict(Kept(r.resA, axis), Says(raw, axis))]_vars

\* a task no step has given a verdict, on either axis
Pending(t) == t.fieldsMapped = "pending" /\ t.attributesMapped = "pending"

\* C25: in every reachable state of a job the tasks no longer pending are
\* exactly those at index < cursor, each with both axes in {yes, no}; every
\* task at index >= cursor still has both axes pending; and progress.done is
\* the number of non-pending tasks.
C25_ProcessedIsBelowCursor ==
  \A jobId \in Jobs :
    LET job == store[jobId]
    IN /\ \A n \in 1..Len(job.reports) :
            IF n - 1 < job.cursor
            THEN Settled(job.reports[n])
            ELSE Pending(job.reports[n])
       /\ job.progress.done
            = Cardinality({n \in 1..Len(job.reports) : ~Pending(job.reports[n])})

\* the labels the two tiers put on what they locate
TierOneLabel == "db"
TierTwoLabel == "ai"
Labelled(raw, label) == raw.nil \/ raw.locatedSource = label

\* the locatedSource a task should carry: nothing unless fields are mapped,
\* else the label of the tier the fields verdict came from
Provenance(t, one) ==
  IF t.fieldsMapped # "yes" THEN Null
  ELSE IF one = "yes" THEN TierOneLabel ELSE TierTwoLabel

\* C26: for every processed task locatedSource is null when fieldsMapped is
\* not yes, and when fieldsMapped is yes it is the label of the tier whose
\* value was taken for the fields axis: Tier 1's label if Tier 1 returned yes
\* for fields, otherwise Tier 2's label. Stated for tiers that put their own
\* label on every answer.
C26_SourceNamesTheTierTaken ==
  [][\A r \in BagToSet(inflight) :
       LET t == store'[r.jobId].reports[r.i + 1]
       IN /\ r.phase = "A"
               => \A raw \in {x \in TierA : Labelled(x, TierOneLabel)} :
                    (TierAResolve(r, raw) /\ store' # store)
                      => t.locatedSource = Provenance(t, Says(raw, "fieldsMapped"))
          /\ (r.phase = "B" /\ Labelled(r.resA, TierOneLabel))
               => \A raw \in {x \in TierB : Labelled(x, TierTwoLabel)} :
                    TierBResolve(r, raw)
                      => t.locatedSource = Provenance(t, Kept(r.resA, "fieldsMapped"))]_vars

\* C27: in every reachable state every task has mappedCount >= 0,
\* totalFields >= 0 and mappedCount <= totalFields, whatever counts the two
\* tiers return and whichever tier's values the merge keeps for each count.
C27_CountsAreOrdered ==
  \A jobId \in Jobs :
    \A n \in 1..Len(store[jobId].reports) :
      LET t == store[jobId].reports[n]
      IN /\ t.mappedCount >= 0
         /\ t.totalFields >= 0
         /\ t.mappedCount <= t.totalFields

\* C28: whenever no start or step is mid-execution a job has an active
\* scheduling loop if and only if its overall is running: every transition
\* to success or failed clears the timer in the same step, and no running
\* job is left without a timer.
C28_LoopIffRunning ==
  \A jobId \in Jobs :
    LET job == store[jobId]
    IN /\ job.overall = "running" <=> job.timer # 0
       /\ LoopsOf(jobId) = IF job.timer # 0 THEN {job.timer} ELSE {}
       /\ job.overall = "running" <=> LoopsOf(jobId) # {}

\* a job that had its interval and is through: the interval is gone
C28_Witness ==
  /\ nextTimer > 1
  /\ timers = <<>>
  /\ \E jobId \in Jobs :
       /\ store[jobId].overall = "success"
       /\ store[jobId].timer = 0
       /\ store[jobId].progress.total = 1
       /\ store[jobId].cursor = 1

\* C29: once a job is success or failed, its tasks, cursor, progress and
\* outcome never change again, under any interleaving of start calls, status
\* calls, ticks and tier calls that complete after the job became terminal.
C29_TerminalJobIsFrozen ==
  [][\A jobId \in Jobs :
       Terminal(store[jobId])
         => /\ store'[jobId].reports = store[jobId].reports
            /\ store'[jobId].cursor = store[jobId].cursor
            /\ store'[jobId].progress = store[jobId].progress
            /\ store'[jobId].outcome = store[jobId].outcome]_vars

\* ------------------------------------------------------ Data Import page
\* ids of the routines the catalog serves
RoutineIds == {"R-1", "R-2"}

JobIdKey == "apex-job-id"
StartedKey == "apex-detection-started"

getItem(ss, k) == IF k \in DOMAIN ss THEN ss[k] ELSE Null
setItem(ss, k, v) == [x \in DOMAIN ss \cup {k} |-> IF x = k THEN v ELSE ss[x]]

\* a checkbox of a routine list changing: add when checked, delete when not
toggled(ids, id) == IF id \in ids THEN ids \ {id} ELSE ids \cup {id}

\* the Continue button after renderStagedFiles()
renderStagedFiles(btn, stagedFiles) ==
  [btn EXCEPT !.disabled = (stagedFiles = 0) \/ btn.busy]

\* the page once init() has run: fresh defaults, everything rendered
ImportPage ==
  /\ state = [amapRoutineIds |-> RoutineIds,
              selectedRoutineIds |-> RoutineIds,
              stagedFiles |-> 0]
  /\ sessionStorage = <<>>
  /\ page = [location |-> "index", devModal |-> FALSE,
             routineList |-> RoutineIds,
             continueBtn |-> [disabled |-> TRUE, busy |-> FALSE]]
  /\ awaiting = EmptyBag

OnImport == page.location = "index"

openDevModal ==
  /\ OnImport
  /\ ~page.devModal
  /\ page' = [page EXCEPT !.devModal = TRUE]
  /\ UNCHANGED <<state, sessionStorage, awaiting, server>>

\* a routine checked or unchecked in the Dev Mode checklist
DevRoutineChange(id) ==
  /\ OnImport
  /\ page.devModal
  /\ state' = [state EXCEPT !.amapRoutineIds = toggled(@, id)]
  /\ UNCHANGED <<sessionStorage, page, awaiting, server>>

\* backdrop, X or Cancel
closeDevModal ==
  /\ OnImport
  /\ page.devModal
  /\ page' = [page EXCEPT !.devModal = FALSE]
  /\ UNCHANGED <<state, sessionStorage, awaiting, server>>

\* Apply: run-now mirrors the fed list, the modal closes, all is rendered
DevApply ==
  /\ OnImport
  /\ page.devModal
  /\ state' = [state EXCEPT !.selectedRoutineIds = state.amapRoutineIds]
  /\ page' = [page EXCEPT
                !.devModal = FALSE,
                !.routineList = state.amapRoutineIds,
                !.continueBtn = renderStagedFiles(@, state.stagedFiles)]
  /\ UNCHANGED <<sessionStorage, awaiting, server>>

\* a checkbox of the Selected Routines card, as the card was last rendered
RoutineChange(id) ==
  /\ OnImport
  /\ ~page.devModal
  /\ id \in page.routineList
  /\ state' = [state EXCEPT !.selectedRoutineIds = toggled(@, id)]
  /\ UNCHANGED <<sessionStorage, page, awaiting, server>>

\* files picked or dropped: fresh ones are staged, known ones are not
stageFiles(fresh) ==
  /\ OnImport
  /\ ~page.devModal
  /\ fresh => state.stagedFiles < MaxFiles
  /\ LET n == IF fresh THEN state.stagedFiles + 1 ELSE state.stagedFiles
     IN /\ state' = [state EXCEPT !.stagedFiles = n]
        /\ page' = [page EXCEPT !.continueBtn = renderStagedFiles(@, n)]
  /\ UNCHANGED <<sessionStorage, awaiting, server>>

\* the Clear button
clearStaged ==
  /\ OnImport
  /\ ~page.devModal
  /\ state' = [state EXCEPT !.stagedFiles = 0]
  /\ page' = [page EXCEPT !.continueBtn = [disabled |-> TRUE, busy |-> FALSE]]
  /\ UNCHANGED <<sessionStorage, awaiting, server>>

\* a Continue handler suspended at one of its awaits
Handler(at, jobId, stored, uploadReq, startReq) ==
  [at |-> at, jobId |-> jobId, stored |-> stored,
   upload |-> uploadReq, start |-> startReq]

\* the upload sent and not awaited, detection start requested at once
awaitUpload_fireAndForget(jobId) ==
  Handler("detectionStart", jobId, TRUE, "pending", "pending")

\* the handler once the job id is stored: the upload is sent and awaited
awaitUpload(jobId) == Handler("preUpload", jobId, TRUE, "pending", "none")

\* a click on Continue: the capture guard, then the handler to its first await
ContinueClick ==
  /\ OnImport
  /\ ~page.devModal
  /\ ~page.continueBtn.disabled
  /\ page' = [page EXCEPT !.continueBtn = [disabled |-> TRUE, busy |-> TRUE]]
  /\ IF state.stagedFiles = 0
     THEN UNCHANGED awaiting
     ELSE /\ BagCardinality(awaiting) < MaxClicks
          /\ awaiting' = awaiting (+) SetToBag({Handler("createJob", Null, FALSE, "none", "none")})
  /\ UNCHANGED <<state, sessionStorage, server>>

\* the handler's way out when it gives up: the button is released
giveUp(c) ==
  /\ page' = [page EXCEPT !.continueBtn.disabled = FALSE]
  /\ awaiting' = awaiting (-) SetToBag({c})

\* createJob() returns a job id, or null; storing the id may throw
createJobReturns(c, jobId, quota) ==
  /\ OnImport
  /\ BagIn(c, awaiting)
  /\ c.at = "createJob"
  /\ IF jobId = Null
     THEN giveUp(c) /\ UNCHANGED sessionStorage
     ELSE IF quota
     THEN giveUp(c) /\ UNCHANGED sessionStorage
     ELSE /\ sessionStorage' = setItem(sessionStorage, JobIdKey, jobId)
          /\ awaiting' = (awaiting (-) SetToBag({c})) (+) SetToBag({awaitUpload(jobId)})
          /\ UNCHANGED page
  /\ UNCHANGED <<state, server>>

\* preUploadToJob() returns, with the server's answer or with its own error
preUploadReturns(c) ==
  /\ OnImport
  /\ BagIn(c, awaiting)
  /\ c.at = "preUpload"
  /\ awaiting' = (awaiting (-) SetToBag({c}))
                 (+) SetToBag({Handler("detectionStart", c.jobId, c.stored, "finished", "pending")})
  /\ UNCHANGED <<state, sessionStorage, page, server>>

\* the detection start request is answered, or fails on the way
detectionStartReturns(c, answered, quota) ==
  /\ OnImport
  /\ BagIn(c, awaiting)
  /\ c.at = "detectionStart"
  /\ IF ~answered \/ quota
     THEN giveUp(c) /\ UNCHANGED sessionStorage
     ELSE /\ sessionStorage' = setItem(sessionStorage, StartedKey, "1")
          /\ page' = [page EXCEPT !.location = "analysis"]
          /\ awaiting' = awaiting (-) SetToBag({c})
  /\ UNCHANGED <<state, server>>

InitImport ==
  /\ store = <<>>
  /\ timers = <<>>
  /\ nextTimer = 1
  /\ inflight = EmptyBag
  /\ ret = [op |-> "none"]
  /\ env = [slowTiers |-> FALSE, shapes |-> "plain"]
  /\ ImportPage

\* the user at the Data Import page, and the requests of Continue coming back
NextImport ==
  \/ openDevModal
  \/ \E id \in RoutineIds : DevRoutineChange(id)
  \/ closeDevModal
  \/ DevApply
  \/ \E id \in RoutineIds : RoutineChange(id)
  \/ \E fresh \in BOOLEAN : stageFiles(fresh)
  \/ clearStaged
  \/ ContinueClick
  \/ \E c \in BagToSet(awaiting), jobId \in TwoJobs \cup {Null}, quota \in BOOLEAN :
       createJobReturns(c, jobId, quota)
  \/ \E c \in BagToSet(awaiting) : preUploadReturns(c)
  \/ \E c \in BagToSet(awaiting), answered \in BOOLEAN, quota \in BOOLEAN :
       detectionStartReturns(c, answered, quota)

SpecImport == InitImport /\ [][NextImport]_vars

\* C22: on the Data Import page state.selectedRoutineIds is a subset of
\* state.amapRoutineIds after every user action: opening Dev Mode, checking
\* or unchecking routines in its list, Apply, Cancel or close, and toggling
\* routines in the Selected Routines card.
C22_RunNowIsWithinFed ==
  OnImport => state.selectedRoutineIds \subseteq state.amapRoutineIds

\* the handlers whose detection start is out, and the one that navigates
Ordered(c) ==
  /\ c.upload # "none" => c.stored
  /\ c.stored => c.jobId # Null
  /\ c.start # "none" => c.upload = "finished"

ReportsKey == "apex-reports"

Verdicts == {"yes", "no", "pending"}
orPending(v) == IF Falsy(v) THEN "pending" ELSE v

normalizeReport(r) ==
  [reportKey |-> r.reportKey,
   fieldsMapped |-> IF r.fieldsMapped \in Verdicts THEN r.fieldsMapped ELSE "pending",
   attributesMapped |-> IF r.attributesMapped \in Verdicts
                        THEN r.attributesMapped ELSE "pending"]

\* APEX.getReports(): the stored array, or [] when nothing is stored
getReports(ss) == IF ReportsKey \in DOMAIN ss THEN ss[ReportsKey] ELSE <<>>

\* APEX.setReports(reports)
setReports(ss, reports) ==
  setItem(ss, ReportsKey, [n \in 1..Len(reports) |-> normalizeReport(reports[n])])

\* APEX.updateReport(reportKey, patch): the first report of that key, patched
updateReport(ss, reportKey, patch) ==
  LET arr  == getReports(ss)
      hits == {n \in 1..Len(arr) : arr[n].reportKey = reportKey}
  IN IF reportKey = "" \/ hits = {}
     THEN ss
     ELSE LET i == CHOOSE n \in hits : \A m \in hits : n <= m
          IN setItem(ss, ReportsKey,
                     [arr EXCEPT ![i] = normalizeReport(
                        [reportKey |-> reportKey,
                         fieldsMapped |-> patch.fieldsMapped,
                         attributesMapped |-> patch.attributesMapped])])

\* poll()'s forEach over resp.reports: each one synced into the stored array
RECURSIVE syncReports(_, _)
syncReports(ss, reps) ==
  IF reps = <<>>
  THEN ss
  ELSE syncReports(
         updateReport(ss, reps[1].reportKey,
                      [fieldsMapped |-> orPending(reps[1].fieldsMapped),
                       attributesMapped |-> orPending(reps[1].attributesMapped)]),
         Tail(reps))

NoReportsAlert == "No reports selected. Please go back and select reports."
InProgressAlert == "Analysis still in progress. Please wait a moment and try again."

\* APEX.routeNext(): where the click leads, or what it alerts
routeNext(detectionResults) ==
  LET N == 1..Len(detectionResults)
      anyFieldsNo  == \E n \in N : detectionResults[n].fieldsMapped = "no"
      allFieldsYes == \A n \in N : detectionResults[n].fieldsMapped = "yes"
      anyAttrsNo   == \E n \in N : detectionResults[n].attributesMapped = "no"
      allAttrsYes  == \A n \in N : detectionResults[n].attributesMapped = "yes"
  IN IF Len(detectionResults) = 0
     THEN [location |-> "analysis", alert |-> NoReportsAlert]
     ELSE IF anyFieldsNo
     THEN [location |-> "fieldSelector", alert |-> Null]
     ELSE IF allFieldsYes /\ anyAttrsNo
     THEN [location |-> "attributeSelector", alert |-> Null]
     ELSE IF allFieldsYes /\ allAttrsYes
     THEN [location |-> "processComplete", alert |-> Null]
     ELSE [location |-> "analysis", alert |-> InProgressAlert]

OnAnalysis == page.location = "analysis"

\* the page's job id, as init() read it
pageJobId == getItem(sessionStorage, JobIdKey)

\* poll() up to its await: the status request goes out and the server answers
PollSend ==
  /\ OnAnalysis
  /\ page.timer \in {"none", "set"}
  /\ BagCardinality(awaiting) < MaxPolls
  /\ ret' = status(store, pageJobId)
  /\ awaiting' = awaiting (+) SetToBag({[op |-> "poll", resp |-> ret']})
  /\ page' = [page EXCEPT !.timer = IF @ = "none" THEN "first" ELSE @]
  /\ UNCHANGED <<store, timers, nextTimer, inflight, env, state, sessionStorage>>

\* the interval handle once this poll is through: init() sets the interval
\* after its own first poll, a later poll clears it when the job is over
timerAfter(timer, over) ==
  IF timer = "first" THEN "set" ELSE IF over THEN "cleared" ELSE timer

\* the answer arrives: rows and stored reports synced, Continue unlocked
\* when the job is over
PollReceive(c) ==
  /\ OnAnalysis
  /\ BagIn(c, awaiting)
  /\ awaiting' = awaiting (-) SetToBag({c})
  /\ IF ~c.resp.found
     THEN /\ page' = [page EXCEPT !.timer = timerAfter(@, FALSE)]
          /\ UNCHANGED sessionStorage
     ELSE LET over == c.resp.body.overall \in {"success", "failed"}
          IN /\ sessionStorage' = syncReports(sessionStorage, c.resp.body.reports)
             /\ page' = [page EXCEPT
                           !.timer = timerAfter(@, over),
                           !.nextBtn.disabled = IF over THEN FALSE ELSE @]
  /\ UNCHANGED <<server, state>>

\* the request fails on the way: poll() logs it and goes on
PollFails(c) ==
  /\ OnAnalysis
  /\ BagIn(c, awaiting)
  /\ awaiting' = awaiting (-) SetToBag({c})
  /\ page' = [page EXCEPT !.timer = timerAfter(@, FALSE)]
  /\ UNCHANGED <<server, state, sessionStorage>>

\* a click on the page's Continue button
NextClick ==
  /\ OnAnalysis
  /\ ~page.nextBtn.disabled
  /\ page.timer # "first"
  /\ LET to == routeNext(getReports(sessionStorage))
     IN page' = [page EXCEPT !.location = to.location, !.alert = to.alert]
  /\ UNCHANGED <<server, state, sessionStorage, awaiting>>

\* The analysis page for a job the Data Import page has started: init() has
\* rendered the rows, seeded the stored reports and is about to poll.
InitAnalysis ==
  \E reportKeys \in {DistinctKeys(1), DistinctKeys(2)} :
    LET out == start(<<>>, <<>>, 1, "J-1", reportKeys)
    IN /\ store = out.store
       /\ timers = out.timers
       /\ nextTimer = 2
       /\ inflight = EmptyBag
       /\ ret = out.ret
       /\ env = [slowTiers |-> FALSE, shapes |-> "plain"]
       /\ state = Null
       /\ sessionStorage =
            setReports(setItem(<<>>, JobIdKey, "J-1"),
                       [n \in 1..Len(reportKeys) |->
                          [reportKey |-> reportKeys[n],
                           fieldsMapped |-> "pending",
                           attributesMapped |-> "pending"]])
       /\ page = [location |-> "analysis", nextBtn |-> [disabled |-> TRUE],
                  timer |-> "none", alert |-> Null]
       /\ awaiting = EmptyBag

NextAnalysis ==
  \/ \E h \in 1..MaxTimers : Tick(h)
  \/ \E r \in BagToSet(inflight), raw \in TierA : TierAResolve(r, raw)
  \/ \E r \in BagToSet(inflight), raw \in TierB : TierBResolve(r, raw)
  \/ \E r \in BagToSet(inflight), err \in Errors : TierReject(r, err)
  \/ PollSend
  \/ \E c \in BagToSet(awaiting) : PollReceive(c)
  \/ \E c \in BagToSet(awaiting) : PollFails(c)
  \/ NextClick

SpecAnalysis == InitAnalysis /\ [][NextAnalysis]_vars

\* C30: on the upload-analysis page, whenever Continue is enabled (a poll
\* saw overall success or failed), a click on it navigates to exactly one of
\* the field-selector, attribute-selector and process-complete pages
\* (fields-no first, then attributes-no, then complete) and never ends in
\* the 'Analysis still in progress' or the 'No reports selected' alert.
C30_ContinueAlwaysNavigates ==
  "alert" \in DOMAIN page
    => LET reps == getReports(sessionStorage)
           N    == 1..Len(reps)
       IN /\ page.alert = Null
          /\ page.location \in {"analysis", "fieldSelector",
                                "attributeSelector", "processComplete"}
          /\ page.location = "fieldSelector"
               => \E n \in N : reps[n].fieldsMapped = "no"
          /\ page.location = "attributeSelector"
               => /\ \A n \in N : reps[n].fieldsMapped = "yes"
                  /\ \E n \in N : reps[n].attributesMapped = "no"
          /\ page.location = "processComplete"
               => \A n \in N : /\ reps[n].fieldsMapped = "yes"
                               /\ reps[n].attributesMapped = "yes"

====
